---- MODULE Spec2Model ----
(***************************************************************************)
(* State-machine model of the prompt optimizer: the functional flow of     *)
(* optimizer.py (run_optimization_flow) and the class-based flow of        *)
(* prompt_optimizer.py (PromptOptimizer.run), with the tag parser of       *)
(* xml_utils.py.                                                           *)
(*                                                                         *)
(* A text is a sequence of symbols.  A model response is a sequence of     *)
(* tokens (an opening marker, a closing marker, a whitespace token or a    *)
(* word); a line typed by the user is a sequence of characters.  An        *)
(* Optional value is a sequence of length 0 (None) or 1.                   *)
(***************************************************************************)
EXTENDS Integers, Sequences, FiniteSets, TLC

VARIABLES flow, pc, stack, session, calls, state, result,
          response, parsed, user_input, sent, display, iter, err,
          choice, fn_in, fn_out, ai_client, returned

vars == <<flow, pc, stack, session, calls, state, result,
          response, parsed, user_input, sent, display, iter, err,
          choice, fn_in, fn_out, ai_client, returned>>

(***************************************************************************)
(* Bounds of the model                                                     *)
(***************************************************************************)
\* refinement-loop model calls in one run (the code has no cap)
MaxCalls == 2
\* sessions in one run (the first one and the start-overs)
MaxSessions == 2
\* requests sent to the model in one run
MaxRequests == 7

(***************************************************************************)
(* Texts                                                                   *)
(***************************************************************************)
None == <<>>
Some(v) == <<v>>

Open(tag) == "<" \o tag \o ">"
Close(tag) == "</" \o tag \o ">"
Tagged(tag, content) == <<Open(tag)>> \o content \o <<Close(tag)>>

Whitespace == {" ", "\n"}

SetMin(S) == CHOOSE m \in S : \A n \in S : m <= n
SetMax(S) == CHOOSE m \in S : \A n \in S : n <= m

\* a strip that removes the whitespace at the start only
strip_LeadingOnly(s) ==
    LET keep == {i \in 1..Len(s) : s[i] \notin Whitespace}
    IN  IF keep = {} THEN s ELSE SubSeq(s, SetMin(keep), Len(s))

\* str.strip()
strip(s) ==
    LET keep == {i \in 1..Len(s) : s[i] \notin Whitespace}
    IN  IF keep = {} THEN <<>> ELSE SubSeq(s, SetMin(keep), SetMax(keep))

LowerChar(c) ==
    CASE c = "F" -> "f"
      [] c = "I" -> "i"
      [] c = "N" -> "n"
      [] c = "A" -> "a"
      [] c = "L" -> "l"
      [] c = "Z" -> "z"
      [] c = "E" -> "e"
      [] c = "D" -> "d"
      [] c = "O" -> "o"
      [] c = "S" -> "s"
      [] c = "H" -> "h"
      [] OTHER -> c

\* str.lower()
lower(s) == [i \in 1..Len(s) |-> LowerChar(s[i])]

(***************************************************************************)
(* xml_utils.py                                                            *)
(***************************************************************************)
\* an extraction that runs to the last closing marker
extract_xml_content_Greedy(text, tag) ==
    LET opens == {i \in 1..Len(text) : text[i] = Open(tag)}
        closesAfter(i) == {j \in 1..Len(text) : j > i /\ text[j] = Close(tag)}
        starts == {i \in opens : closesAfter(i) # {}}
    IN  IF starts = {} THEN <<>>
        ELSE LET i == SetMin(starts)
                 j == SetMax(closesAfter(i))
             IN  strip(SubSeq(text, i + 1, j - 1))

\* an extraction that falls back to the whole text when nothing matches
extract_xml_content_WholeText(text, tag) ==
    LET opens == {i \in 1..Len(text) : text[i] = Open(tag)}
        closesAfter(i) == {j \in 1..Len(text) : j > i /\ text[j] = Close(tag)}
        starts == {i \in opens : closesAfter(i) # {}}
    IN  IF starts = {} THEN strip(text)
        ELSE LET i == SetMin(starts)
                 j == SetMin(closesAfter(i))
             IN  strip(SubSeq(text, i + 1, j - 1))

\* re.search("<tag>(.*?)</tag>", text, re.DOTALL): the leftmost opening
\* marker that has a closing marker after it, up to the first such closing
\* marker; group(1).strip(), or "" when there is no match.
extract_xml_content(text, tag) ==
    LET opens == {i \in 1..Len(text) : text[i] = Open(tag)}
        closesAfter(i) == {j \in 1..Len(text) : j > i /\ text[j] = Close(tag)}
        starts == {i \in opens : closesAfter(i) # {}}
    IN  IF starts = {} THEN <<>>
        ELSE LET i == SetMin(starts)
                 j == SetMin(closesAfter(i))
             IN  strip(SubSeq(text, i + 1, j - 1))

\* a parser that leaves out the fields it does not find
parse_xml_response_OnlyFound(resp, tags) ==
    [tag \in {t \in tags : extract_xml_content(resp, t) # <<>>} |->
        extract_xml_content(resp, tag)]

parse_xml_response(resp, tags) == [tag \in tags |-> extract_xml_content(resp, tag)]

ASSESSMENT_TAGS == {"intent", "reasoning", "initial_understanding"}

REFINEMENT_TAGS ==
    {"thinking", "extracted_context", "extracted_goal", "extracted_format",
     "ai_role", "additional_insights", "score", "reasoning",
     "ready_to_finalize", "user_message"}

OPTIMIZATION_TAGS == {"thinking", "optimized_prompt", "improvement_summary"}

\* the single tag list of prompt_optimizer.py's parse_xml_response
CLASS_TAGS ==
    REFINEMENT_TAGS \cup {"intent", "initial_understanding", "optimized_prompt",
                          "improvement_summary"}

TagsFor(f, tags) == IF f = "class" THEN CLASS_TAGS ELSE tags

\* dict.get(key, default)
Get(d, key, default) == IF key \in DOMAIN d THEN d[key] ELSE default

(***************************************************************************)
(* Data model                                                              *)
(***************************************************************************)
NotYetClear == <<"Not yet clear">>

Fields == {"context", "goal", "format", "ai_role", "additional_insights"}

field_map ==
    [context |-> "extracted_context", goal |-> "extracted_goal",
     format |-> "extracted_format", ai_role |-> "ai_role",
     additional_insights |-> "additional_insights"]

InitialUnderstanding ==
    [context |-> NotYetClear, goal |-> NotYetClear, format |-> NotYetClear,
     ai_role |-> NotYetClear, additional_insights |-> <<>>]

create_initial_state ==
    [messages |-> <<>>,
     context_understanding |-> InitialUnderstanding,
     original_input |-> <<>>,
     user_intent |-> "UNCLEAR"]

Msg(role, content) == [role |-> role, content |-> content]

(***************************************************************************)
(* Inputs: what the model and the user can produce                         *)
(***************************************************************************)
OriginalInputs == {<<"promptA">>, <<"promptB">>}

AssessCreate ==
    Tagged("intent", <<"create_new">>) \o Tagged("initial_understanding", <<"IU">>)
AssessOptimize == Tagged("intent", <<"optimize_existing">>)
AssessOther == Tagged("intent", <<"Create_New">>)
AssessResponses == {AssessCreate, AssessOptimize, AssessOther}

Ready(flag, score) ==
    Tagged("score", score) \o Tagged("ready_to_finalize", flag)

RespFull ==
    Tagged("extracted_context", <<"ctxA">>) \o Tagged("extracted_goal", <<"goalA">>)
    \o Tagged("additional_insights", <<"insA">>)
    \o Ready(<<"yes">>, <<"0.85">>) \o Tagged("user_message", <<"\n", "Q1", "\n">>)
RespSentinel ==
    Tagged("extracted_context", <<"Not yet clear">>) \o Tagged("extracted_goal", <<" ">>)
    \o Tagged("extracted_format", <<"fmtB">>) \o Tagged("additional_insights", <<>>)
    \o Ready(<<"no">>, <<"0.8">>) \o Tagged("user_message", <<"Q2">>)
RespNoTags == <<"plain", " ", "text">>
RespCapitalYes == Tagged("extracted_context", <<"ctxB">>) \o Ready(<<"Yes">>, <<"0.85">>)
RespBadScore == Ready(<<"yes">>, <<"high">>)
RespNoScore == Tagged("ready_to_finalize", <<"yes">>)
RespHigh == Ready(<<"yes">>, <<"1.5">>)
RespNegative == Ready(<<"yes">>, <<"-1">>)
RespInf == Ready(<<"yes">>, <<"inf">>)
RespNan == Ready(<<"yes">>, <<"nan">>)

RefineResponses ==
    {RespFull, RespSentinel, RespNoTags, RespCapitalYes, RespBadScore,
     RespNoScore, RespHigh, RespNegative, RespInf, RespNan}

FinalGood ==
    Tagged("optimized_prompt", <<"OP">>) \o Tagged("improvement_summary", <<"IS">>)
FinalNoTags == <<"sorry">>
FinalResponses == {FinalGood, FinalNoTags}

TestOpen(n) == "<test number=\"" \o ToString(n) \o "\">"
TestClose == "</test>"
TestBlock(n, body) == <<TestOpen(n)>> \o body \o <<TestClose>>

TestsNone == <<"no", " ", "tests">>
TestsOne ==
    <<"intro">> \o
    TestBlock(1, Tagged("scenario", <<"S1">>) \o Tagged("input", <<"I1">>)
                 \o Tagged("expected_behavior", <<"E1">>))
TestResponses == {TestsNone, TestsOne}

InFinalize == <<"f", "i", "n", "a", "l", "i", "z", "e">>
InFinish == <<"F", "i", "n", "i", "s", "h">>
InEndSpace == <<"e", "n", "d", " ">>
InF == <<"f">>
InMore == <<"m", "o", "r", "e">>
InUpper == <<"F", "I", "N", "A", "L", "I", "Z", "E">>
UserInputs == {InFinalize, InUpper, InFinish, InEndSpace, InF, InMore}

\* the responses and inputs of the whole-session specification
SessionResponses == {RespFull, RespSentinel, RespNoTags}
SessionInputs == {InFinalize, InMore}

Feedbacks == {<<"shorter">>}

MenuInputs == {"1", "2", "3", "4", "9"}

(***************************************************************************)
(* optimizer.py / prompt_optimizer.py: the operations                      *)
(***************************************************************************)
\* the intent_map lookup of assess_user_intent
\* a lookup that takes every label it does not know for an existing prompt
intent_of_DefaultOptimize(parsed_) ==
    LET intent_str == Get(parsed_, "intent", <<"unclear">>)
    IN  IF intent_str = <<"create_new">> THEN "CREATE_NEW"
        ELSE IF intent_str = <<"unclear">> THEN "UNCLEAR"
        ELSE "OPTIMIZE_EXISTING"

intent_of(parsed_) ==
    LET intent_str == Get(parsed_, "intent", <<"unclear">>)
    IN  IF intent_str = <<"optimize_existing">> THEN "OPTIMIZE_EXISTING"
        ELSE IF intent_str = <<"create_new">> THEN "CREATE_NEW"
        ELSE "UNCLEAR"

\* assess_user_intent: the parse, the lookup, and the pair it returns
assess_user_intent(f, resp) ==
    LET parsed_ == parse_xml_response(resp, TagsFor(f, ASSESSMENT_TAGS))
    IN  [intent |-> intent_of(parsed_),
         initial_understanding |-> Get(parsed_, "initial_understanding", <<>>)]

\* a seeding that takes every intent but OPTIMIZE_EXISTING for a creation
initialize_conversation_UnclearCreates(st) ==
    LET create == st.user_intent # "OPTIMIZE_EXISTING"
        system_prompt == IF create THEN <<"CREATION_PROMPT">> ELSE <<"OPTIMIZATION_PROMPT">>
        start_message ==
            IF create
            THEN <<"User's request: '">> \o st.original_input
                 \o <<"' I understand you want to create a new prompt. ">>
                 \o st.context_understanding.additional_insights
                 \o <<" Please begin helping them create an effective prompt.">>
            ELSE <<"Initial prompt: '">> \o st.original_input
                 \o <<"' Please begin the refinement process.">>
    IN  [st EXCEPT !.messages = <<Msg("system", system_prompt), Msg("user", start_message)>>]

\* initialize_conversation / _initialize_conversation: the two seeding turns
initialize_conversation(st) ==
    LET create == st.user_intent = "CREATE_NEW"
        system_prompt == IF create THEN <<"CREATION_PROMPT">> ELSE <<"OPTIMIZATION_PROMPT">>
        start_message ==
            IF create
            THEN <<"User's request: '">> \o st.original_input
                 \o <<"' I understand you want to create a new prompt. ">>
                 \o st.context_understanding.additional_insights
                 \o <<" Please begin helping them create an effective prompt.">>
            ELSE <<"Initial prompt: '">> \o st.original_input
                 \o <<"' Please begin the refinement process.">>
    IN  [st EXCEPT !.messages = <<Msg("system", system_prompt), Msg("user", start_message)>>]

\* a merge that takes an empty parsed value for a new value
update_context_understanding_TakesEmpty(cu, parsed_) ==
    [f \in Fields |->
        IF field_map[f] \in DOMAIN parsed_ /\ parsed_[field_map[f]] # NotYetClear
        THEN parsed_[field_map[f]] ELSE cu[f]]

\* the merge without the comparison with the sentinel
update_context_understanding_NoSentinelTest(cu, parsed_) ==
    [f \in Fields |->
        LET value == Get(parsed_, field_map[f], <<>>)
        IN  IF value # <<>> THEN value ELSE cu[f]]

\* if value and value != "Not yet clear": overwrite
update_context_understanding(cu, parsed_) ==
    [f \in Fields |->
        LET value == Get(parsed_, field_map[f], <<>>)
        IN  IF value # <<>> /\ value # NotYetClear THEN value ELSE cu[f]]

Finite(v) == [kind |-> "finite", v |-> v]

\* the literals float() is given in this model, in hundredths
FloatLiteral ==
    "0.85" :> Finite(85) @@ "0.8" :> Finite(80) @@ "1.5" :> Finite(150)
    @@ "-1" :> Finite(-100) @@ "nan" :> [kind |-> "nan", v |-> 0]
    @@ "inf" :> [kind |-> "inf", v |-> 0]

\* float(s): a number, nan, inf, or ValueError
python_float(s) ==
    IF Len(s) = 1 /\ s[1] \in DOMAIN FloatLiteral
    THEN FloatLiteral[s[1]]
    ELSE [kind |-> "ValueError", v |-> 0]

\* int(x) of x = n / 100: truncation toward zero
Trunc100(n) == IF n >= 0 THEN n \div 100 ELSE -((-n) \div 100)
Max0(n) == IF n < 0 THEN 0 ELSE n

\* ui.show_ready_to_optimize: int(confidence * 20) raises for nan and inf,
\* otherwise the panel is printed whatever the value
show_ready_to_optimize(confidence) ==
    IF confidence.kind = "nan" THEN [raised |-> Some("ValueError"), panel |-> None]
    ELSE IF confidence.kind = "inf" THEN [raised |-> Some("OverflowError"), panel |-> None]
    ELSE LET filled == Trunc100(confidence.v * 20)
         IN  [raised |-> None,
              panel |-> Some([confidence |-> confidence.v,
                              filled |-> Max0(filled),
                              empty |-> Max0(20 - filled)])]

\* the readiness check without the except ValueError clause
ready_check_Uncaught(parsed_) ==
    IF Get(parsed_, "ready_to_finalize", None) = <<"yes">>
    THEN LET confidence == python_float(Get(parsed_, "score", <<"0.8">>))
         IN  IF confidence.kind = "ValueError"
             THEN [raised |-> Some("ValueError"), panel |-> None]
             ELSE show_ready_to_optimize(confidence)
    ELSE [raised |-> None, panel |-> None]

\* a readiness check that shows the default confidence whatever the score
ready_check_DefaultConfidence(parsed_) ==
    IF Get(parsed_, "ready_to_finalize", None) = <<"yes">>
    THEN show_ready_to_optimize(python_float(<<"0.8">>))
    ELSE [raised |-> None, panel |-> None]

\* lines 119-124 of refinement_loop: what is printed and what escapes
ready_check(parsed_) ==
    IF Get(parsed_, "ready_to_finalize", None) = <<"yes">>
    THEN LET confidence == python_float(Get(parsed_, "score", <<"0.8">>))
         IN  IF confidence.kind = "ValueError"
             THEN [raised |-> None, panel |-> None]
             ELSE LET shown == show_ready_to_optimize(confidence)
                  IN  IF shown.raised = Some("ValueError")
                      THEN [raised |-> None, panel |-> None]
                      ELSE shown
    ELSE [raised |-> None, panel |-> None]

Keywords ==
    {<<"f", "i", "n", "a", "l", "i", "z", "e">>, <<"d", "o", "n", "e">>,
     <<"f", "i", "n", "i", "s", "h">>, <<"e", "n", "d">>, <<"f">>}

\* ui.get_user_input returns what Prompt.ask returns
get_user_input(typed) == typed

\* the keyword test without lower()
is_termination_CaseSensitive(input) == input \in Keywords

\* user_input.lower() in ["finalize", "done", "finish", "end", "f"]
is_termination(input) == lower(input) \in Keywords

\* a finalizer that hands the raw response back when the prompt field is missing
generate_optimized_prompt_RawFallback(f, resp) ==
    LET parsed_ == parse_xml_response(resp, TagsFor(f, OPTIMIZATION_TAGS))
        prompt == Get(parsed_, "optimized_prompt", <<>>)
    IN  [optimized_prompt |-> IF prompt = <<>> THEN resp ELSE prompt,
         improvements |-> Get(parsed_, "improvement_summary", <<>>),
         test_cases |-> None]

generate_optimized_prompt(f, resp) ==
    LET parsed_ == parse_xml_response(resp, TagsFor(f, OPTIMIZATION_TAGS))
    IN  [optimized_prompt |-> Get(parsed_, "optimized_prompt", <<>>),
         improvements |-> Get(parsed_, "improvement_summary", <<>>),
         test_cases |-> None]

IsTestOpen(tok) == \E n \in 0..9 : tok = TestOpen(n)

\* re.findall('<test number="(\d+)">(.*?)</test>', response, re.DOTALL):
\* the bodies of the non-overlapping matches, left to right
RECURSIVE find_tests(_, _)
find_tests(text, from) ==
    LET starts == {i \in from..Len(text) :
                     /\ IsTestOpen(text[i])
                     /\ \E j \in (i+1)..Len(text) : text[j] = TestClose}
    IN  IF starts = {} THEN <<>>
        ELSE LET i == SetMin(starts)
                 j == SetMin({k \in (i+1)..Len(text) : text[k] = TestClose})
             IN  <<SubSeq(text, i + 1, j - 1)>> \o find_tests(text, j + 1)

\* a test extraction that hands the blocks back last first
generate_test_cases_Reversed(resp) ==
    LET tests == find_tests(resp, 1)
    IN  [k \in 1..Len(tests) |->
            <<extract_xml_content(tests[Len(tests) + 1 - k], "scenario"),
              extract_xml_content(tests[Len(tests) + 1 - k], "input"),
              extract_xml_content(tests[Len(tests) + 1 - k], "expected_behavior")>>]

\* a test extraction that looks for each block's fields in the whole response
generate_test_cases_WholeResponse(resp) ==
    LET tests == find_tests(resp, 1)
    IN  [k \in 1..Len(tests) |->
            <<extract_xml_content(resp, "scenario"),
              extract_xml_content(resp, "input"),
              extract_xml_content(resp, "expected_behavior")>>]

generate_test_cases(resp) ==
    LET tests == find_tests(resp, 1)
    IN  [k \in 1..Len(tests) |->
            <<extract_xml_content(tests[k], "scenario"),
              extract_xml_content(tests[k], "input"),
              extract_xml_content(tests[k], "expected_behavior")>>]

RECURSIVE format_from(_, _)
format_from(test_cases, k) ==
    IF k > Len(test_cases) THEN <<>>
    ELSE (IF k > 1 THEN <<"\n\n">> ELSE <<>>)
         \o <<"Test Case " \o ToString(k) \o ":", "\n", "Scenario: ">> \o test_cases[k][1]
         \o <<"\n", "Input: ">> \o test_cases[k][2]
         \o <<"\n", "Expected: ">> \o test_cases[k][3]
         \o format_from(test_cases, k + 1)

format_test_cases_for_context(test_cases) == format_from(test_cases, 1)

\* the flag the menu is shown with: result['test_cases'] is not None
has_test_cases(res) == res.test_cases # None

\* the refinement context without the test-case block
test_block_Omitted(res) == <<>>

\* the block add_refinement_to_conversation adds when result.test_cases is truthy
test_block(res) ==
    IF res.test_cases # None /\ res.test_cases[1] # <<>>
    THEN <<"Test cases that were generated:", "\n">> \o res.test_cases[1] \o <<"\n">>
    ELSE <<>>

\* the end of the first line of the refinement context and the line after
\* it, which holds the indentation of the string literal in the source:
\* twenty blanks in optimizer.py, twenty-four in prompt_optimizer.py
blank_line(f) ==
    IF f = "class" THEN "\n                        \n" ELSE "\n                    \n"

\* the refinement context as the flow f builds it
refinement_context_in(f, res, feedback) ==
    <<"The user wants to refine the optimized prompt further.", blank_line(f),
      "Current optimized prompt:", "\n">> \o res.optimized_prompt \o <<"\n">>
    \o test_block(res)
    \o <<"\n", "User's feedback: ">> \o feedback

\* a refinement context that stops before the user's feedback
refinement_context_NoFeedback(res, feedback) ==
    <<"The user wants to refine the optimized prompt further.", blank_line(flow),
      "Current optimized prompt:", "\n">> \o res.optimized_prompt \o <<"\n">>
    \o test_block(res)

refinement_context(res, feedback) == refinement_context_in(flow, res, feedback)

\* a refine-further that takes the optimized prompt for the new original
\* input and has the intent read again
add_refinement_to_conversation_Rebase(st, res, feedback) ==
    [st EXCEPT !.messages = Append(@, Msg("user", refinement_context(res, feedback))),
               !.original_input = res.optimized_prompt,
               !.user_intent = "OPTIMIZE_EXISTING"]

\* a refine-further that starts a new history from the refinement context
add_refinement_to_conversation_Reseed(st, res, feedback) ==
    [st EXCEPT !.messages =
        <<st.messages[1], Msg("user", refinement_context(res, feedback))>>]

add_refinement_to_conversation(st, res, feedback) ==
    [st EXCEPT !.messages = Append(@, Msg("user", refinement_context(res, feedback)))]

(***************************************************************************)
(* The session state machine                                               *)
(***************************************************************************)
NoDisplay == [message |-> None, ready |-> None]

(***************************************************************************)
(* ai_client.py / AIClient: the credential of the environment, the client  *)
(* handle, the kind of the last request that went out to the model, and    *)
(* the number of requests that went out                                    *)
(***************************************************************************)
NoClient(credential) ==
    [credential |-> credential, client |-> None, last_request |-> None, requests |-> 0]

\* a get_client that makes a new client for every call
get_client_AlwaysNew(ai) ==
    IF ~ai.credential THEN [raised |-> Some("ValueError"), ai |-> ai]
    ELSE [raised |-> None,
          ai |-> [ai EXCEPT !.client = IF @ = None THEN Some(1) ELSE Some(@[1] + 1)]]

\* get_client / AIClient.client: the handle there is, or a new one, or the
\* ValueError for the missing OPENAI_API_KEY
get_client(ai) ==
    IF ai.client # None THEN [raised |-> None, ai |-> ai]
    ELSE IF ~ai.credential THEN [raised |-> Some("ValueError"), ai |-> ai]
    ELSE [raised |-> None, ai |-> [ai EXCEPT !.client = Some(1)]]

\* a chat_completion that sends its request before it looks for the client
chat_completion_SendsFirst(ai, kind) ==
    LET got == get_client(ai)
    IN  [raised |-> got.raised, ai |-> [got.ai EXCEPT !.last_request = Some(kind), !.requests = @ + 1]]

\* chat_completion up to the request: the client first, then the request
chat_completion(ai, kind) ==
    LET got == get_client(ai)
    IN  IF got.raised # None THEN got
        ELSE [raised |-> None, ai |-> [got.ai EXCEPT !.last_request = Some(kind), !.requests = @ + 1]]

\* the request of the step the session is at
CallKind ==
    CASE pc = "assess" -> "assess_user_intent"
      [] pc = "model_call" -> "refinement_loop"
      [] pc = "finalize" -> "generate_optimized_prompt"
      [] pc = "menu" -> "generate_test_cases"

\* the step's request goes out and its response comes back
Completes ==
    /\ ai_client.requests < MaxRequests
    /\ chat_completion(ai_client, CallKind).raised = None
    /\ ai_client' = chat_completion(ai_client, CallKind).ai

Init ==
    /\ flow \in {"functional", "class"}
    /\ pc = "start"
    /\ stack = <<>>
    /\ session = 0
    /\ calls = 0
    /\ state = create_initial_state
    /\ result = None
    /\ response = None
    /\ parsed = None
    /\ user_input = None
    /\ sent = None
    /\ display = NoDisplay
    /\ iter = <<>>
    /\ err = None
    /\ choice = None
    /\ fn_in = None
    /\ fn_out = None
    /\ ai_client \in {NoClient(credential) : credential \in BOOLEAN}
    /\ returned = None

RunFrame == IF flow = "class" THEN "run" ELSE "run_optimization_flow"
LoopFrame == IF flow = "class" THEN "_refinement_loop" ELSE "refinement_loop"

\* run_optimization_flow 239-247 / PromptOptimizer.run 253-258: the first
\* input; the functional flow creates a new state, the class keeps self.state
Start ==
    /\ pc = "start"
    /\ \E typed \in OriginalInputs :
         LET base == IF flow = "class" THEN state ELSE create_initial_state
         IN  state' = [base EXCEPT !.original_input = get_user_input(typed)]
    /\ session' = session + 1
    /\ stack' = Append(stack, RunFrame)
    /\ result' = None
    /\ pc' = "assess"
    /\ UNCHANGED <<ai_client, returned, fn_in, fn_out, choice, flow, calls, response, parsed, user_input, sent, display, iter, err>>

\* the classification: assess_user_intent returns the pair to its caller,
\* _assess_user_intent assigns it to the state itself
Assess ==
    /\ pc = "assess"
    /\ Completes
    /\ \E resp \in AssessResponses :
         LET assessed == assess_user_intent(flow, resp)
         IN  IF flow = "class"
             THEN /\ state' = [state EXCEPT
                         !.user_intent = assessed.intent,
                         !.context_understanding.additional_insights =
                             assessed.initial_understanding]
                  /\ returned' = None
                  /\ pc' = "init"
             ELSE /\ state' = state
                  /\ returned' = Some(assessed)
                  /\ pc' = "persist"
    /\ UNCHANGED <<fn_in, fn_out, choice, flow, stack, session, calls, result, response, parsed,
                   user_input, sent, display, iter, err>>

\* run_optimization_flow stores the pair assess_user_intent returned
PersistIntent ==
    /\ pc = "persist"
    /\ returned # None
    /\ state' = [state EXCEPT
            !.user_intent = returned[1].intent,
            !.context_understanding.additional_insights =
                returned[1].initial_understanding]
    /\ returned' = None
    /\ pc' = "init"
    /\ UNCHANGED <<ai_client, fn_in, fn_out, choice, flow, stack, session, calls, result,
                   response, parsed, user_input, sent, display, iter, err>>

\* initialize_conversation, then entry into the refinement loop
InitConversation ==
    /\ pc = "init"
    /\ state' = initialize_conversation(state)
    /\ stack' = Append(stack, LoopFrame)
    /\ pc' = "model_call"
    /\ UNCHANGED <<ai_client, returned, fn_in, fn_out, choice, flow, session, calls, result, response, parsed,
                   user_input, sent, display, iter, err>>

\* refinement_loop 104-105: chat_completion(model, state['messages'])
ModelCall(responses) ==
    /\ pc = "model_call"
    /\ Completes
    /\ calls < MaxCalls
    /\ \E resp \in responses : response' = Some(resp)
    /\ sent' = Some(state.messages)
    /\ calls' = calls + 1
    /\ display' = NoDisplay
    /\ iter' = <<"call">>
    /\ pc' = "append_assistant"
    /\ UNCHANGED <<returned, fn_in, fn_out, choice, flow, stack, session, state, result, parsed, user_input, err>>

\* a loop that does not append the assistant's response
AppendAssistant_Skipped ==
    /\ pc = "append_assistant"
    /\ pc' = "parse"
    /\ UNCHANGED <<ai_client, returned, fn_in, fn_out, choice, flow, stack, session, calls, state, result, response, parsed,
                   user_input, sent, display, iter, err>>

\* refinement_loop 107
AppendAssistant ==
    /\ pc = "append_assistant"
    /\ state' = [state EXCEPT !.messages = Append(@, Msg("assistant", response[1]))]
    /\ iter' = Append(iter, "append_assistant")
    /\ pc' = "parse"
    /\ UNCHANGED <<ai_client, returned, fn_in, fn_out, choice, flow, stack, session, calls, result, response, parsed,
                   user_input, sent, display, err>>

\* refinement_loop 110
Parse ==
    /\ pc = "parse"
    /\ parsed' = Some(parse_xml_response(response[1], TagsFor(flow, REFINEMENT_TAGS)))
    /\ iter' = Append(iter, "parse")
    /\ pc' = "merge"
    /\ UNCHANGED <<ai_client, returned, fn_in, fn_out, choice, flow, stack, session, calls, state, result, response,
                   user_input, sent, display, err>>

\* refinement_loop 111
Merge ==
    /\ pc = "merge"
    /\ state' = [state EXCEPT !.context_understanding =
                    update_context_understanding(@, parsed[1])]
    /\ iter' = Append(iter, "merge")
    /\ pc' = "show_message"
    /\ UNCHANGED <<ai_client, returned, fn_in, fn_out, choice, flow, stack, session, calls, result, response, parsed,
                   user_input, sent, display, err>>

\* refinement_loop 114-116
ShowMessage ==
    /\ pc = "show_message"
    /\ LET user_message == Get(parsed[1], "user_message", <<>>)
       IN  IF user_message # <<>>
           THEN /\ display' = [display EXCEPT !.message = Some(user_message)]
                /\ iter' = Append(iter, "show_message")
           ELSE UNCHANGED <<display, iter>>
    /\ pc' = "ready_check"
    /\ UNCHANGED <<ai_client, returned, fn_in, fn_out, choice, flow, stack, session, calls, state, result, response, parsed,
                   user_input, sent, err>>

\* refinement_loop 119-124
ReadyCheck ==
    /\ pc = "ready_check"
    /\ LET outcome == ready_check(parsed[1])
       IN  /\ display' = [display EXCEPT !.ready = outcome.panel]
           /\ err' = outcome.raised
           /\ pc' = IF outcome.raised = None THEN "ask_input" ELSE "error"
    /\ iter' = Append(iter, "ready_check")
    /\ UNCHANGED <<ai_client, returned, fn_in, fn_out, choice, flow, stack, session, calls, state, result, response, parsed,
                   user_input, sent>>

\* refinement_loop 127-129
AskInput(inputs) ==
    /\ pc = "ask_input"
    /\ \E typed \in inputs : user_input' = Some(get_user_input(typed))
    /\ iter' = Append(iter, "ask_input")
    /\ pc' = "keyword_check"
    /\ UNCHANGED <<ai_client, returned, fn_in, fn_out, choice, flow, stack, session, calls, state, result, response, parsed,
                   sent, display, err>>

\* refinement_loop 131-132: break (the class calls _finalize_and_show_menu
\* from inside the loop, the function returns to run_optimization_flow)
KeywordCheck ==
    /\ pc = "keyword_check"
    /\ iter' = Append(iter, "keyword_check")
    /\ IF is_termination(user_input[1])
       THEN /\ pc' = "finalize"
            /\ stack' = IF flow = "class"
                        THEN Append(stack, "_finalize_and_show_menu")
                        ELSE SubSeq(stack, 1, Len(stack) - 1)
       ELSE /\ pc' = "append_user"
            /\ UNCHANGED stack
    /\ UNCHANGED <<ai_client, returned, fn_in, fn_out, choice, flow, session, calls, state, result, response, parsed,
                   user_input, sent, display, err>>

\* refinement_loop 134
AppendUser ==
    /\ pc = "append_user"
    /\ state' = [state EXCEPT !.messages = Append(@, Msg("user", user_input[1]))]
    /\ iter' = Append(iter, "append_user")
    /\ pc' = "model_call"
    /\ UNCHANGED <<ai_client, returned, fn_in, fn_out, choice, flow, stack, session, calls, result, response, parsed,
                   user_input, sent, display, err>>

\* ui.show_optimized_prompt: the panel, and the improvements when there are any
show_optimized_prompt(res) ==
    <<"OPTIMIZED PROMPT">> \o res.optimized_prompt \o
    (IF res.improvements # <<>> THEN <<"Key Improvements:">> \o res.improvements
     ELSE <<>>)

\* generate_optimized_prompt and show_optimized_prompt
Finalize ==
    /\ pc = "finalize"
    /\ Completes
    /\ \E resp \in FinalResponses :
         LET res == generate_optimized_prompt(flow, resp)
         IN  /\ result' = Some(res)
             /\ display' = [NoDisplay EXCEPT !.message = Some(show_optimized_prompt(res))]
    /\ response' = None
    /\ parsed' = None
    /\ user_input' = None
    /\ sent' = None
    /\ iter' = <<>>
    /\ pc' = "menu"
    /\ UNCHANGED <<returned, fn_in, fn_out, choice, flow, stack, session, calls, state, err>>

\* a menu that hands back whatever was typed
show_menu_AcceptsAll(typed) == Some(typed)

\* the menu's answer for one typed line, and the branch it selects
show_menu(typed) ==
    IF typed \in {"1", "2", "3", "4"} THEN Some(typed) ELSE None

Chosen(c) ==
    /\ \E typed \in MenuInputs : show_menu(typed) = Some(c)
    /\ choice' = Some(c)

\* ui.show_menu with an input it rejects: the notice, and show_menu again; an
\* accepted input that none of the four branches takes falls through to the
\* next turn of the menu loop
InvalidChoice ==
    /\ pc = "menu"
    /\ \E typed \in MenuInputs :
         LET c == show_menu(typed)
         IN  IF c = None
             THEN /\ display' = [display EXCEPT
                          !.message = Some(<<"Invalid choice. Please enter 1-4.">>)]
                  /\ choice' = choice
             ELSE /\ c[1] \notin {"1", "2", "3", "4"}
                  /\ choice' = c
                  /\ display' = display
    /\ UNCHANGED <<ai_client, returned, fn_in, fn_out, flow, pc, stack, session, calls, state, result, response, parsed,
                   user_input, sent, iter, err>>

\* ui.show_test_cases: the heading and one table for each test case
RECURSIVE tables_from(_, _)
tables_from(test_cases, k) ==
    IF k > Len(test_cases) THEN <<>>
    ELSE <<"Test Case " \o ToString(k), "Scenario:">> \o test_cases[k][1]
         \o <<"Input:">> \o test_cases[k][2]
         \o <<"Expected:">> \o test_cases[k][3]
         \o tables_from(test_cases, k + 1)

show_test_cases(test_cases) == <<"Test Cases:">> \o tables_from(test_cases, 1)

\* a test generation that also puts the test cases into the session history
GenerateTests_AppendsTurn ==
    /\ pc = "menu"
    /\ Completes
    /\ Chosen("1")
    /\ \E resp \in TestResponses :
         LET test_cases == generate_test_cases(resp)
             formatted == format_test_cases_for_context(test_cases)
         IN  /\ result' = Some([result[1] EXCEPT !.test_cases = Some(formatted)])
             /\ state' = [state EXCEPT !.messages = Append(@, Msg("user", formatted))]
             /\ display' = [NoDisplay EXCEPT !.message = Some(show_test_cases(test_cases))]
    /\ UNCHANGED <<returned, fn_in, fn_out, flow, pc, stack, session, calls, response, parsed,
                   user_input, sent, iter, err>>

\* choice "1"
GenerateTests ==
    /\ pc = "menu"
    /\ Completes
    /\ Chosen("1")
    /\ \E resp \in TestResponses :
         LET test_cases == generate_test_cases(resp)
         IN  /\ result' = Some([result[1] EXCEPT
                     !.test_cases = Some(format_test_cases_for_context(test_cases))])
             /\ display' = [NoDisplay EXCEPT !.message = Some(show_test_cases(test_cases))]
    /\ UNCHANGED <<returned, fn_in, fn_out, flow, pc, stack, session, calls, state, response, parsed,
                   user_input, sent, iter, err>>

\* a refine-further whose loop asks the user before it calls the model
RefineFurther_AsksFirst ==
    /\ pc = "menu"
    /\ Chosen("2")
    /\ calls < MaxCalls
    /\ \E feedback \in Feedbacks :
         state' = add_refinement_to_conversation(state, result[1], get_user_input(feedback))
    /\ stack' = Append(stack, LoopFrame)
    /\ display' = NoDisplay
    /\ pc' = "ask_input"
    /\ UNCHANGED <<ai_client, returned, fn_in, fn_out, flow, session, calls, result, response, parsed,
                   user_input, sent, iter, err>>

\* choice "2": feedback, add_refinement_to_conversation, the loop again
RefineFurther ==
    /\ pc = "menu"
    /\ Chosen("2")
    /\ calls < MaxCalls
    /\ \E feedback \in Feedbacks :
         state' = add_refinement_to_conversation(state, result[1], get_user_input(feedback))
    /\ stack' = Append(stack, LoopFrame)
    /\ display' = NoDisplay
    /\ pc' = "model_call"
    /\ UNCHANGED <<ai_client, returned, fn_in, fn_out, flow, session, calls, result, response, parsed,
                   user_input, sent, iter, err>>

\* choice "3": run_optimization_flow(model) / self.run()
StartOver ==
    /\ pc = "menu"
    /\ Chosen("3")
    /\ session < MaxSessions
    /\ calls < MaxCalls
    /\ display' = NoDisplay
    /\ pc' = "start"
    /\ UNCHANGED <<ai_client, returned, fn_in, fn_out, flow, stack, session, calls, state, result, response, parsed,
                   user_input, sent, iter, err>>

\* choice "4"
Exit ==
    /\ pc = "menu"
    /\ Chosen("4")
    /\ display' = [display EXCEPT !.message = Some(<<"Thank you for using Prompt Optimizer!">>)]
    /\ pc' = "return"
    /\ UNCHANGED <<ai_client, returned, fn_in, fn_out, flow, stack, session, calls, state, result, response, parsed,
                   user_input, sent, iter, err>>

\* a menu that takes up its loop again when the loop it called for a
\* refine-further or the session it called for a start-over returns
after_return_MenuResumes(caller, callee) ==
    CASE caller = "run_optimization_flow" /\ callee = "run_optimization_flow" -> "menu"
      [] caller = "_finalize_and_show_menu" /\ callee = "run" -> "menu"
      [] caller = "_finalize_and_show_menu" /\ callee = "_refinement_loop" -> "menu"
      [] caller = "_refinement_loop" /\ callee = "_finalize_and_show_menu" -> "return"
      [] caller = "run" /\ callee = "_refinement_loop" -> "return"

\* where a caller goes on when the call it made returns: the statement after
\* the call is a return or a break out of the caller's loop, for every pair
after_return(caller, callee) ==
    CASE caller = "run_optimization_flow" /\ callee = "run_optimization_flow" -> "return"
      [] caller = "_finalize_and_show_menu" /\ callee = "run" -> "return"
      [] caller = "_finalize_and_show_menu" /\ callee = "_refinement_loop" -> "return"
      [] caller = "_refinement_loop" /\ callee = "_finalize_and_show_menu" -> "return"
      [] caller = "run" /\ callee = "_refinement_loop" -> "return"

\* the frame on top returns; its caller goes on from the call it made
Return ==
    /\ pc = "return"
    /\ stack # <<>>
    /\ stack' = SubSeq(stack, 1, Len(stack) - 1)
    /\ pc' = IF Len(stack) = 1 THEN "done"
             ELSE after_return(stack[Len(stack) - 1], stack[Len(stack)])
    /\ UNCHANGED <<ai_client, returned, fn_in, fn_out, choice, flow, session, calls, state, result, response, parsed,
                   user_input, sent, display, iter, err>>

(***************************************************************************)
(* Exceptions: where they are raised and where they end                    *)
(***************************************************************************)
CallPoints == {"assess", "model_call", "finalize", "menu"}

InputPoints == {"start", "ask_input", "menu"}

\* ui.show_cancellation and ui.show_error
show_cancellation == <<"Optimization cancelled by user.">>

show_error(message) == <<"Error: ", message>>

\* handlers that report an exception and do not raise it again
run_prompt_optimizer_Swallows(raised) ==
    IF raised = "KeyboardInterrupt"
    THEN [report |-> show_cancellation, raised |-> None]
    ELSE [report |-> show_error(raised), raised |-> None]

\* handlers without the one for the interruption
run_prompt_optimizer_NoInterruptHandler(raised) ==
    [report |-> show_error(raised), raised |-> Some(raised)]

\* run_prompt_optimizer's handlers: the interruption is reported and ends
\* there, every other exception is reported and raised again
run_prompt_optimizer(raised) ==
    IF raised = "KeyboardInterrupt"
    THEN [report |-> show_cancellation, raised |-> None]
    ELSE [report |-> show_error(raised), raised |-> Some(raised)]

\* the caller of run_optimization_flow: the interruption is a cancellation,
\* every other exception is shown as an error and ends the session
session_boundary(raised) ==
    IF raised = "KeyboardInterrupt"
    THEN [report |-> show_cancellation, raised |-> None]
    ELSE [report |-> show_error(raised), raised |-> Some(raised)]

\* get_client raises for the missing credential: no request goes out
ClientUnavailable ==
    /\ pc \in CallPoints
    /\ chat_completion(ai_client, CallKind).raised # None
    /\ ai_client' = chat_completion(ai_client, CallKind).ai
    /\ err' = chat_completion(ai_client, CallKind).raised
    /\ pc' = "error"
    /\ UNCHANGED <<returned, fn_in, fn_out, choice, flow, stack, session, calls, state, result,
                   response, parsed, user_input, sent, display, iter>>

\* a failing call that leaves a partial assistant turn in the history
CallRaises_PartialTurn ==
    /\ pc \in CallPoints
    /\ ai_client.requests < MaxRequests
    /\ chat_completion(ai_client, CallKind).raised = None
    /\ ai_client' = chat_completion(ai_client, CallKind).ai
    /\ state' = [state EXCEPT !.messages = Append(@, Msg("assistant", <<>>))]
    /\ err' = Some("APIError")
    /\ pc' = "error"
    /\ UNCHANGED <<returned, fn_in, fn_out, choice, flow, stack, session, calls, result,
                   response, parsed, user_input, sent, display, iter>>

\* the request goes out and client.chat.completions.create raises
CallRaises ==
    /\ pc \in CallPoints
    /\ ai_client.requests < MaxRequests
    /\ chat_completion(ai_client, CallKind).raised = None
    /\ ai_client' = chat_completion(ai_client, CallKind).ai
    /\ err' = Some("APIError")
    /\ pc' = "error"
    /\ UNCHANGED <<returned, fn_in, fn_out, choice, flow, stack, session, calls, state, result,
                   response, parsed, user_input, sent, display, iter>>

\* the user interrupts a wait for input or for the model
Interrupt ==
    /\ \/ /\ pc \in InputPoints
          /\ ai_client' = ai_client
       \/ /\ pc \in CallPoints
          /\ ai_client.requests < MaxRequests
          /\ chat_completion(ai_client, CallKind).raised = None
          /\ ai_client' = chat_completion(ai_client, CallKind).ai
    /\ err' = Some("KeyboardInterrupt")
    /\ pc' = "error"
    /\ UNCHANGED <<returned, fn_in, fn_out, choice, flow, stack, session, calls, state, result,
                   response, parsed, user_input, sent, display, iter>>

\* no function on the stack handles the exception: it unwinds every frame
\* and reaches the handlers around the session
Propagate ==
    /\ pc = "error"
    /\ LET handled == IF flow = "class" THEN run_prompt_optimizer(err[1])
                      ELSE session_boundary(err[1])
       IN  /\ display' = [display EXCEPT !.message = Some(handled.report)]
           /\ err' = handled.raised
           /\ pc' = IF handled.raised = None THEN "cancelled" ELSE "failed"
    /\ stack' = <<>>
    /\ UNCHANGED <<ai_client, returned, fn_in, fn_out, choice, flow, session, calls, state, result,
                   response, parsed, user_input, sent, iter>>

Next ==
    \/ Start
    \/ Assess
    \/ PersistIntent
    \/ InitConversation
    \/ ModelCall(SessionResponses)
    \/ AppendAssistant
    \/ Parse
    \/ Merge
    \/ ShowMessage
    \/ ReadyCheck
    \/ AskInput(SessionInputs)
    \/ KeywordCheck
    \/ AppendUser
    \/ Finalize
    \/ InvalidChoice
    \/ GenerateTests
    \/ RefineFurther
    \/ StartOver
    \/ Exit
    \/ Return
    \/ ClientUnavailable
    \/ Propagate

Spec == Init /\ [][Next]_vars

\* one refinement loop, from the first input to the loop's end, over all the
\* responses and inputs
LoopNext ==
    \/ Start
    \/ Assess
    \/ PersistIntent
    \/ InitConversation
    \/ ModelCall(RefineResponses)
    \/ AppendAssistant
    \/ Parse
    \/ Merge
    \/ ShowMessage
    \/ ReadyCheck
    \/ AskInput(UserInputs)
    \/ KeywordCheck
    \/ AppendUser
    \/ ClientUnavailable
    \/ Propagate

LoopSpec == Init /\ [][LoopNext]_vars

\* the session with a collaborator that may raise and a user who may
\* interrupt
FailResponses == {RespFull, RespNoTags}

FailNext ==
    \/ Start
    \/ Assess
    \/ PersistIntent
    \/ InitConversation
    \/ ModelCall(FailResponses)
    \/ AppendAssistant
    \/ Parse
    \/ Merge
    \/ ShowMessage
    \/ ReadyCheck
    \/ AskInput(SessionInputs)
    \/ KeywordCheck
    \/ AppendUser
    \/ Finalize
    \/ InvalidChoice
    \/ GenerateTests
    \/ RefineFurther
    \/ StartOver
    \/ Exit
    \/ Return
    \/ ClientUnavailable
    \/ CallRaises
    \/ Interrupt
    \/ Propagate

FailSpec == Init /\ [][FailNext]_vars

(***************************************************************************)
(* The parser, the classifier and the finalizer applied to one response     *)
(* text each, over every text of a bounded length                           *)
(***************************************************************************)
MaxTextLen == 4

TextsOver(alphabet) == UNION {[1..n -> alphabet] : n \in 0..MaxTextLen}

FieldNames == {"optimized_prompt", "improvement_summary", "thinking"}

ParseAlphabet ==
    {Open("optimized_prompt"), Close("optimized_prompt"),
     Open("improvement_summary"), Close("improvement_summary"), "text", " "}

IntentAlphabet ==
    {Open("intent"), Close("intent"),
     "create_new", "optimize_existing", "Create_New", "unclear", " "}

\* the pieces a test-generation response is put together from: envelopes
\* with a number and a body, text and fields outside every envelope, and a
\* marker without its partner
MaxSegments == 3

TestBodies ==
    {Tagged("scenario", <<"S1">>) \o Tagged("input", <<" ", "I1">>)
        \o Tagged("expected_behavior", <<"E1">>),
     <<"\n">> \o Tagged("scenario", <<"S2">>) \o Tagged("expected_behavior", <<"E2">>),
     <<>>}

TestSegments ==
    {TestBlock(n, body) : n \in {1, 2}, body \in TestBodies}
    \cup {<<"intro">>, Tagged("input", <<"outside">>), <<TestClose>>, <<TestOpen(3)>>}

RECURSIVE Flatten(_)
Flatten(segments) ==
    IF segments = <<>> THEN <<>> ELSE Head(segments) \o Flatten(Tail(segments))

TestTexts ==
    {Flatten(segments) :
        segments \in UNION {[1..n -> TestSegments] : n \in 0..MaxSegments}}

\* the understandings and the parsed mappings the merge is applied to: every
\* tracked field known or not, every parsed key absent, empty, the sentinel
\* or a new value, and a key the merge has no use for
MergeKeys == {field_map[f] : f \in Fields}

Understandings == [Fields -> {NotYetClear, <<"old">>}]

ParsedOver(keys) == [keys -> {<<>>, NotYetClear, <<"new">>}]

ParsedMappings ==
    UNION {ParsedOver(keys) : keys \in SUBSET MergeKeys}
    \cup {p @@ [user_message |-> <<"new">>] :
            p \in UNION {ParsedOver(keys) : keys \in SUBSET MergeKeys}}

\* the responses of a refinement turn that is parsed and merged: one context
\* field with whitespace and text in it, and the goal known or not before
GoalAlphabet ==
    {Open("extracted_goal"), Close("extracted_goal"), " ", "\n", "goalB"}

GoalUnderstandings ==
    {[InitialUnderstanding EXCEPT !.goal = goal] : goal \in {NotYetClear, <<"old">>}}

FnInputs ==
    [op : {"parse_xml_response"}, text : TextsOver(ParseAlphabet), tags : SUBSET FieldNames]
    \cup [op : {"generate_optimized_prompt"}, text : TextsOver(ParseAlphabet)]
    \cup [op : {"assess_user_intent"}, text : TextsOver(IntentAlphabet)]
    \cup [op : {"generate_test_cases"}, text : TestTexts]
    \cup [op : {"update_context_understanding"}, cu : Understandings,
           parsed : ParsedMappings]
    \cup [op : {"refinement_loop"}, text : TextsOver(GoalAlphabet), cu : GoalUnderstandings]

FnInit ==
    /\ flow \in {"functional", "class"}
    /\ pc = "apply"
    /\ stack = <<>>
    /\ session = 0
    /\ calls = 0
    /\ state = create_initial_state
    /\ result = None
    /\ response = None
    /\ parsed = None
    /\ user_input = None
    /\ sent = None
    /\ display = NoDisplay
    /\ iter = <<>>
    /\ err = None
    /\ choice = None
    /\ fn_in \in {Some(input) : input \in FnInputs}
    /\ fn_out = None
    /\ ai_client = NoClient(TRUE)
    /\ returned = None

Applies(op, value) ==
    /\ pc = "apply"
    /\ fn_in[1].op = op
    /\ fn_out' = Some(value)
    /\ pc' = "applied"
    /\ UNCHANGED <<returned, ai_client, flow, stack, session, calls, state, result, response,
                   parsed, user_input, sent, display, iter, err, choice, fn_in>>

ApplyParse ==
    Applies("parse_xml_response", parse_xml_response(fn_in[1].text, fn_in[1].tags))

ApplyFinalize ==
    Applies("generate_optimized_prompt", generate_optimized_prompt(flow, fn_in[1].text))

ApplyAssess ==
    Applies("assess_user_intent", assess_user_intent(flow, fn_in[1].text))

ApplyTests ==
    Applies("generate_test_cases", generate_test_cases(fn_in[1].text))

ApplyMerge ==
    Applies("update_context_understanding",
            update_context_understanding(fn_in[1].cu, fn_in[1].parsed))

\* refinement_loop 110-111: the response parsed, and merged into the context
ApplyParseAndMerge ==
    LET parsed_ == parse_xml_response(fn_in[1].text, TagsFor(flow, REFINEMENT_TAGS))
    IN  Applies("refinement_loop",
                [parsed |-> parsed_,
                 cu |-> update_context_understanding(fn_in[1].cu, parsed_)])

FnNext ==
    \/ ApplyParse
    \/ ApplyFinalize
    \/ ApplyAssess
    \/ ApplyTests
    \/ ApplyMerge
    \/ ApplyParseAndMerge

FnSpec == FnInit /\ [][FnNext]_vars

(***************************************************************************)
(* Properties                                                              *)
(***************************************************************************)
Last(s) == s[Len(s)]

Contains(s, sub) ==
    \E i \in 0..(Len(s) - Len(sub)) : SubSeq(s, i + 1, i + Len(sub)) = sub

understanding == state.context_understanding

\* C1: a merge whose parsed value for a field is "" or "Not yet clear" leaves
\* a field that holds another value as it is, and in a refinement loop no
\* step takes a field back to "Not yet clear".
C1_MergeMonotonic ==
    [][\A f \in Fields :
          /\ (/\ pc = "merge"
              /\ understanding[f] # NotYetClear
              /\ Get(parsed[1], field_map[f], <<>>) \in {<<>>, NotYetClear})
             => state'.context_understanding[f] = understanding[f]
          /\ (session' = session /\ understanding[f] # NotYetClear)
             => state'.context_understanding[f] # NotYetClear]_vars

\* the merge has run on a "Not yet clear" context while the context was known
C1_Witness ==
    /\ pc = "show_message"
    /\ parsed # None
    /\ parsed[1]["extracted_context"] = NotYetClear
    /\ parsed[1]["extracted_goal"] = <<>>
    /\ understanding.context = <<"ctxA">>
    /\ understanding.goal = <<"goalA">>

\* C2: the user turn ends the loop exactly when the trimmed, lowercased input
\* is one of the five keywords.
C2_KeywordMembership ==
    [][pc = "keyword_check"
         => ((pc' = "finalize") <=> (lower(strip(user_input[1])) \in Keywords))]_vars

\* C3: a session begun by start-over starts from intent classification and
\* shows nothing of the session before it: until its own first model turn the
\* context fields it has not set are "Not yet clear".  (original_input,
\* user_intent, additional_insights and messages are assigned by the new
\* session itself before it reads them.)
C3_RestartIsolation ==
    (session > 1 /\ pc \in {"assess", "init"})
        => \A f \in Fields \ {"additional_insights"} : understanding[f] = NotYetClear

HasTests(res) == res # None /\ res[1].test_cases # None

CanonicalOrder ==
    <<"call", "append_assistant", "parse", "merge", "show_message",
      "ready_check", "ask_input", "keyword_check", "append_user">>

Position(e) == CHOOSE k \in 1..Len(CanonicalOrder) : CanonicalOrder[k] = e

\* C5: the steps of one loop iteration happen in the order call, append of
\* the response, parse, merge, message, readiness check, input request,
\* keyword check, append of the input; none but the message is left out
\* before a later one; the call is given the whole history, and the response
\* is in the history before the user is asked.
C5_TurnOrder ==
    /\ \A i, j \in 1..Len(iter) : i < j => Position(iter[i]) < Position(iter[j])
    /\ \A i \in 1..Len(iter) : \A k \in 1..(Position(iter[i]) - 1) :
          CanonicalOrder[k] # "show_message"
             => \E h \in 1..(i - 1) : iter[h] = CanonicalOrder[k]
    /\ pc = "append_assistant" => sent = Some(state.messages)
    /\ pc \in {"ask_input", "keyword_check"}
          => state.messages = Append(sent[1], Msg("assistant", response[1]))
    /\ (pc = "model_call" /\ iter # <<>>)
          => state.messages
               = sent[1] \o <<Msg("assistant", response[1]), Msg("user", user_input[1])>>

\* an iteration that performed all nine steps
C5_Witness == pc = "model_call" /\ iter = CanonicalOrder

\* C6: only a termination keyword ends the loop, and after a response with
\* ready_to_finalize = "yes" the loop goes on to the user turn.
C6_OnlyKeywordTerminates ==
    [][/\ (pc' = "finalize" /\ pc # "finalize")
            => (pc = "keyword_check" /\ lower(user_input[1]) \in Keywords)
       /\ (pc = "ready_check" /\ parsed[1]["ready_to_finalize"] = <<"yes">>)
            => pc' = "ask_input"]_vars

\* C7: an input that matches a keyword (whatever its case) ends the loop and
\* is not appended, so the history ends with the iteration's response; any
\* other input is appended once, as typed, and the next call follows.
C7_KeywordsConsumed ==
    [][/\ (pc = "keyword_check" /\ lower(user_input[1]) \in Keywords)
            => /\ pc' = "finalize"
               /\ state' = state
               /\ Last(state.messages) = Msg("assistant", response[1])
       /\ (pc = "keyword_check" /\ lower(user_input[1]) \notin Keywords)
            => (pc' = "append_user" /\ state' = state)
       /\ pc = "append_user"
            => /\ state'.messages = Append(state.messages, Msg("user", user_input[1]))
               /\ pc' = "model_call"
       /\ pc = "ask_input" => state' = state
       /\ (pc = "model_call" /\ iter # <<>>)
            => /\ Last(state.messages) = Msg("user", user_input[1])
               /\ sent' = Some(state.messages)
               /\ state' = state]_vars

\* "end " was appended as typed, then "Finish" ended the loop unrecorded
C7_Witness ==
    /\ pc = "finalize"
    /\ user_input = Some(InFinish)
    /\ Len(state.messages) = 5
    /\ state.messages[4] = Msg("user", InEndSpace)
    /\ Last(state.messages) = Msg("assistant", response[1])

\* C8: the readiness panel is shown only when the parsed flag is "yes"; with
\* the flag "yes" and a score that float() rejects nothing is shown, nothing
\* is raised and the user is asked next; a score of 0.85 is shown at 0.85.
C8_ReadinessNotification ==
    [][pc = "ready_check" =>
         LET flag == parsed[1]["ready_to_finalize"]
             score == parsed[1]["score"]
         IN  /\ display'.ready # None => flag = <<"yes">>
             /\ flag # <<"yes">> => (err' = None /\ pc' = "ask_input")
             /\ (flag = <<"yes">> /\ python_float(score).kind = "ValueError")
                  => (display'.ready = None /\ err' = None /\ pc' = "ask_input")
             /\ (flag = <<"yes">> /\ score = <<"0.85">>)
                  => (display'.ready # None /\ display'.ready[1].confidence = 85)]_vars

\* a turn with flag yes and score "high" shows nothing, after a turn that did
C8_Witness ==
    /\ pc = "ask_input"
    /\ response = Some(RespBadScore)
    /\ display.ready = None
    /\ err = None
    /\ state.messages[3] = Msg("assistant", RespFull)

\* C9: a confidence shown in the readiness panel is within [0,1], and no
\* score makes the loop fail.
C9_ConfidenceInUnitInterval ==
    /\ display.ready # None => display.ready[1].confidence \in 0..100
    /\ err # Some("OverflowError")

NoExpectedTags(resp) ==
    \A i \in 1..Len(resp) : \A tag \in REFINEMENT_TAGS :
        resp[i] # Open(tag) /\ resp[i] # Close(tag)

\* C10: a response without any expected tag is appended as it is, changes no
\* context field, shows no message and no readiness panel, raises nothing,
\* and the user is asked next.
C10_MalformedAbsorbed ==
    [][(response # None /\ NoExpectedTags(response[1])) =>
         /\ pc = "append_assistant"
              => (/\ state'.messages = Append(state.messages, Msg("assistant", response[1]))
                  /\ pc' = "parse")
         /\ pc = "parse" => (state' = state /\ pc' = "merge")
         /\ pc = "merge" => (state' = state /\ pc' = "show_message")
         /\ pc = "show_message"
              => (display' = NoDisplay /\ state' = state /\ pc' = "ready_check")
         /\ pc = "ready_check"
              => (display' = NoDisplay /\ state' = state /\ pc' = "ask_input")
         /\ pc \in {"append_assistant", "parse", "merge", "show_message", "ready_check"}
              => err' = None]_vars

\* the user is asked after a tagless response that left a known context alone
C10_Witness ==
    /\ pc = "ask_input"
    /\ response = Some(RespNoTags)
    /\ Last(state.messages) = Msg("assistant", RespNoTags)
    /\ display = NoDisplay
    /\ err = None
    /\ understanding.context = <<"ctxA">>
    /\ understanding.format = NotYetClear

\* an opening marker of the field with a closing marker of the field after it
HasPair(text, tag) ==
    \E i, j \in 1..Len(text) : i < j /\ text[i] = Open(tag) /\ text[j] = Close(tag)

IsText(v) == v \in Seq(STRING)

Applied(op) == pc = "applied" /\ fn_in[1].op = op

\* C11: for every response text the finalizer returns a result with exactly
\* the three fields; optimized_prompt and improvements are texts, each of them
\* empty when the response holds no pair of markers for it (so both are empty
\* for the empty response and for a response with no matching tags), and
\* test_cases is absent
C11_FinalizeTotal ==
    Applied("generate_optimized_prompt") =>
        LET text == fn_in[1].text
            r == fn_out[1]
        IN  /\ DOMAIN r = {"optimized_prompt", "improvements", "test_cases"}
            /\ IsText(r.optimized_prompt)
            /\ IsText(r.improvements)
            /\ r.test_cases = None
            /\ ~HasPair(text, "optimized_prompt") => r.optimized_prompt = <<>>
            /\ ~HasPair(text, "improvement_summary") => r.improvements = <<>>
            /\ text = <<>> => r.optimized_prompt = <<>> /\ r.improvements = <<>>

\* a response with text and markers but no pair of them, finalized to a
\* result with two empty fields
C11_Witness ==
    /\ Applied("generate_optimized_prompt")
    /\ Contains(fn_in[1].text, <<"text">>)
    /\ Contains(fn_in[1].text, <<Close("optimized_prompt")>>)
    /\ ~HasPair(fn_in[1].text, "optimized_prompt")
    /\ ~HasPair(fn_in[1].text, "improvement_summary")
    /\ fn_out[1].optimized_prompt = <<>>
    /\ fn_out[1].improvements = <<>>
    /\ fn_out[1].test_cases = None

IsPrefix(s, t) == Len(s) <= Len(t) /\ SubSeq(t, 1, Len(s)) = s

\* C12: within one session, after initialize_conversation has seeded it, every
\* step leaves the message history a prefix of the new history (nothing
\* removed, nothing changed), and the finalize step and every step that stays
\* in the menu (generate-tests, a rejected choice) leave it as it is
C12_MessagesAppendOnly ==
    [][(session' = session /\ pc # "init") =>
          /\ IsPrefix(state.messages, state'.messages)
          /\ (pc = "finalize" \/ (pc = "menu" /\ pc' = "menu")) =>
                state'.messages = state.messages]_vars

\* the menu after a finalize, test generation, a refine-further and a second
\* loop and finalize: the history holds the seed, both assistant turns and
\* the refinement turn
C12_Witness ==
    /\ pc = "menu"
    /\ session = 1
    /\ Len(state.messages) = 5
    /\ state.messages[3].role = "assistant"
    /\ state.messages[4].role = "user"
    /\ Contains(state.messages[4].content, <<"Test cases that were generated:">>)
    /\ state.messages[5].role = "assistant"
    /\ result # None

\* C13: for every response text the classifier returns one of the three
\* intents; it returns OPTIMIZE_EXISTING exactly when the extracted label is
\* "optimize_existing" and CREATE_NEW exactly when it is "create_new", so a
\* label that is unknown, differently cased, empty or missing gives UNCLEAR
C13_IntentTotal ==
    Applied("assess_user_intent") =>
        LET text == fn_in[1].text
            label == extract_xml_content(text, "intent")
            intent == fn_out[1].intent
        IN  /\ intent \in {"OPTIMIZE_EXISTING", "CREATE_NEW", "UNCLEAR"}
            /\ intent = "OPTIMIZE_EXISTING" <=> label = <<"optimize_existing">>
            /\ intent = "CREATE_NEW" <=> label = <<"create_new">>
            /\ ~HasPair(text, "intent") => intent = "UNCLEAR"
            /\ (~Contains(text, <<"create_new">>) /\ ~Contains(text, <<"optimize_existing">>))
                  => intent = "UNCLEAR"

\* a response whose label differs from a known one in case only, classified
\* as unclear
C13_Witness ==
    /\ Applied("assess_user_intent")
    /\ fn_in[1].text = <<Open("intent"), "Create_New", Close("intent")>>
    /\ fn_out[1].intent = "UNCLEAR"

\* C14: within one session no step changes original_input, and no step but
\* the classification at the session's start, with the storing of what it
\* returned, changes user_intent: refinement
\* turns, finalize, test generation, refine-further and rejected menu input
\* leave both as they are
C14_InputAndIntentStable ==
    [][(session' = session) =>
          /\ state'.original_input = state.original_input
          /\ pc \notin {"assess", "persist"} => state'.user_intent = state.user_intent]_vars

\* the menu of the first session after a refine-further, a second finalize
\* and a test generation, with the input and the intent of the session's start
C14_Witness ==
    /\ pc = "menu"
    /\ session = 1
    /\ Len(state.messages) = 5
    /\ state.original_input = <<"promptA">>
    /\ state.user_intent = "CREATE_NEW"
    /\ result # None
    /\ result[1].test_cases # None
    /\ choice = Some("1")

IsSuffix(s, t) == Len(s) <= Len(t) /\ SubSeq(t, Len(t) - Len(s) + 1, Len(t)) = s

\* the user turn of a refine-further: the current optimized prompt first, the
\* test cases when the result has a non-empty test_cases text and no test-case
\* block otherwise, the feedback last
RefinementTurn(m, res, feedback) ==
    /\ m.role = "user"
    /\ m.content[1] = "The user wants to refine the optimized prompt further."
    /\ SubSeq(m.content, 3, 4) = <<"Current optimized prompt:", "\n">>
    /\ SubSeq(m.content, 5, 4 + Len(res.optimized_prompt)) = res.optimized_prompt
    /\ IF res.test_cases # None /\ res.test_cases[1] # <<>>
       THEN Contains(m.content, <<"Test cases that were generated:", "\n">> \o res.test_cases[1])
       ELSE ~Contains(m.content, <<"Test cases that were generated:">>)
    /\ IsSuffix(<<"User's feedback: ">> \o feedback, m.content)

\* C15: a refine-further appends exactly one user turn, made of the current
\* optimized prompt, the test-case block if there is one and the feedback, and
\* changes nothing else of the conversation state or of the result; the model
\* call that follows is sent the augmented history; the loop ends only into
\* one finalize, which puts a new result in place, shows it and leaves the
\* session in the menu, and the menu is entered from nowhere else
C15_RefineFurtherProtocol ==
    [][/\ (pc = "menu" /\ pc' = "model_call") =>
            /\ Len(state'.messages) = Len(state.messages) + 1
            /\ IsPrefix(state.messages, state'.messages)
            /\ \E feedback \in Feedbacks :
                  RefinementTurn(Last(state'.messages), result[1], feedback)
            /\ [state' EXCEPT !.messages = state.messages] = state
            /\ result' = result
       /\ (pc = "model_call" /\ pc' # pc) => sent' = Some(state.messages)
       /\ (pc' = "finalize" /\ pc # "finalize") => pc = "keyword_check"
       /\ pc = "finalize" =>
            /\ pc' = "menu"
            /\ result' # None
            /\ result'[1].test_cases = None
            /\ display'.message = Some(show_optimized_prompt(result'[1]))
            /\ state' = state
       /\ (pc' = "menu" /\ pc # "menu") => pc = "finalize"]_vars

\* the menu after a refine-further that carried test cases, the loop it
\* re-entered and the finalize that followed: a new result without test cases
\* is on display
C15_Witness ==
    /\ pc = "menu"
    /\ choice = Some("2")
    /\ Len(state.messages) = 5
    /\ Contains(state.messages[4].content, <<"Test cases that were generated:">>)
    /\ IsSuffix(<<"User's feedback: ", "shorter">>, state.messages[4].content)
    /\ result # None
    /\ result[1].test_cases = None
    /\ display.message = Some(show_optimized_prompt(result[1]))

\* a step of the menu that takes choice "1"
GenerateTestsStep ==
    /\ pc = "menu"
    /\ pc' = "menu"
    /\ choice' = Some("1")
    /\ choice # Some("1") \/ result' # result

\* C16: a generate-tests step stores a test-case text on the current result
\* and leaves its optimized_prompt and improvements, the conversation state
\* and the count of refinement calls as they are, shows the test cases and
\* stays in the menu; every finalize makes a result without test cases, and
\* test_cases changes in no step but a generate-tests step
C16_GenerateTestsProtocol ==
    [][/\ GenerateTestsStep =>
            /\ result # None /\ result' # None
            /\ result'[1].test_cases # None
            /\ IsText(result'[1].test_cases[1])
            /\ result'[1].optimized_prompt = result[1].optimized_prompt
            /\ result'[1].improvements = result[1].improvements
            /\ state' = state
            /\ calls' = calls
            /\ display'.message # None
            /\ display'.message[1][1] = "Test Cases:"
            /\ result'[1].test_cases[1] # <<>> =>
                  Contains(display'.message[1], <<"Test Case 1", "Scenario:">>)
       /\ pc = "finalize" => result'[1].test_cases = None
       /\ (result # None /\ result' # None /\ pc # "finalize"
              /\ result'[1].test_cases # result[1].test_cases) => GenerateTestsStep]_vars

\* the menu right after a test generation that found a test case: the result
\* carries it beside its optimized prompt and the panel shows it
C16_Witness ==
    /\ pc = "menu"
    /\ choice = Some("1")
    /\ result # None
    /\ result[1].optimized_prompt # <<>>
    /\ result[1].test_cases # None
    /\ Contains(result[1].test_cases[1], <<"Scenario: ">>)
    /\ display.message # None
    /\ display.message[1][1] = "Test Cases:"
    /\ Len(state.messages) = 3

Exited == pc \in {"return", "done"}

\* C17: only choice "4" leaves the menu for the way out, and once exit has
\* been chosen every step is a return of a caller: no model call, no request
\* for input, no menu and no display follows, and nothing of the session
\* changes, whatever start-overs and refine-furthers are on the call stack
C17_ExitIsFinal ==
    [][/\ (pc = "menu" /\ pc' = "return") => choice' = Some("4")
       /\ Exited =>
            /\ pc' \in {"return", "done"}
            /\ Len(stack') < Len(stack)
            /\ <<session, calls, state, result, response, parsed, user_input,
                 sent, display, choice, err>>' =
               <<session, calls, state, result, response, parsed, user_input,
                 sent, display, choice, err>>]_vars

\* the class flow after an exit from the menu of a refine-further: every one
\* of the five nested callers has returned
C17_Witness ==
    /\ pc = "done"
    /\ flow = "class"
    /\ stack = <<>>
    /\ choice = Some("4")
    /\ Len(state.messages) = 5
    /\ calls = 2

InvalidNotice == Some(<<"Invalid choice. Please enter 1-4.">>)

\* C18: the menu rejects every input other than "1", "2", "3" and "4"; the
\* step that shows the rejection leaves the session in the menu and changes
\* neither the conversation state, the result, the call stack, the session
\* nor the count of model calls; the choice the menu hands to the session is
\* always one of the four
C18_InvalidChoiceHarmless ==
    [][/\ \A typed \in MenuInputs :
             typed \notin {"1", "2", "3", "4"} => show_menu(typed) = None
       /\ choice' \in {None, Some("1"), Some("2"), Some("3"), Some("4")}
       /\ (pc = "menu" /\ display'.message = InvalidNotice) =>
            /\ pc' = "menu"
            /\ <<session, calls, state, result, stack, choice, response, err>>' =
               <<session, calls, state, result, stack, choice, response, err>>]_vars

\* the menu after a test generation and a rejected input: the rejection is
\* on display and the result with its test cases is still there
C18_Witness ==
    /\ pc = "menu"
    /\ display.message = InvalidNotice
    /\ choice = Some("1")
    /\ result # None
    /\ result[1].test_cases # None
    /\ calls = 1

\* the content between the first opening marker of the field and the first
\* closing marker of the field after it
FirstPairContent(text, tag) ==
    LET i == CHOOSE k \in 1..Len(text) :
                 /\ text[k] = Open(tag)
                 /\ \A m \in 1..(k - 1) : text[m] # Open(tag)
        j == CHOOSE k \in (i + 1)..Len(text) :
                 /\ text[k] = Close(tag)
                 /\ \A m \in (i + 1)..(k - 1) : text[m] # Close(tag)
    IN  SubSeq(text, i + 1, j - 1)

\* v is raw without the whitespace at its two ends
IsTrimOf(v, raw) ==
    /\ \E a, b \in 0..Len(raw) :
          /\ a + Len(v) + b = Len(raw)
          /\ SubSeq(raw, a + 1, a + Len(v)) = v
          /\ \A k \in 1..a : raw[k] \in Whitespace
          /\ \A k \in (Len(raw) - b + 1)..Len(raw) : raw[k] \in Whitespace
    /\ v # <<>> => v[1] \notin Whitespace /\ Last(v) \notin Whitespace

Occurrences(text, tok) == Cardinality({k \in 1..Len(text) : text[k] = tok})

\* a closing marker of the field with no opening marker of the field before it
ClosingFirst(text, tag) ==
    \E j \in 1..Len(text) :
        /\ text[j] = Close(tag)
        /\ \A i \in 1..(j - 1) : text[i] # Open(tag)

\* C20 as stated: when a field's markers occur more than once only the first
\* match is used, and when a closing marker of the field comes before any
\* opening marker of the field the result for the field is empty
C20_ParserEdgeCases ==
    Applied("parse_xml_response") =>
        \A tag \in fn_in[1].tags :
            LET text == fn_in[1].text
                value == fn_out[1][tag]
            IN  /\ (HasPair(text, tag) /\ (Occurrences(text, Open(tag)) > 1
                                           \/ Occurrences(text, Close(tag)) > 1)) =>
                      IsTrimOf(value, FirstPairContent(text, tag))
                /\ ClosingFirst(text, tag) => value = <<>>

\* C20, amended: when a field's markers occur more than once only the first
\* match is used; a closing marker that comes before any opening marker is
\* passed over, so the result is empty when no closing marker follows an
\* opening marker and is the first pair's content when one does
C20_ParserEdgeCasesFirstPair ==
    Applied("parse_xml_response") =>
        \A tag \in fn_in[1].tags :
            LET text == fn_in[1].text
                value == fn_out[1][tag]
            IN  /\ (HasPair(text, tag) /\ (Occurrences(text, Open(tag)) > 1
                                           \/ Occurrences(text, Close(tag)) > 1)) =>
                      IsTrimOf(value, FirstPairContent(text, tag))
                /\ (ClosingFirst(text, tag) /\ ~HasPair(text, tag)) => value = <<>>
                /\ (ClosingFirst(text, tag) /\ HasPair(text, tag)) =>
                      IsTrimOf(value, FirstPairContent(text, tag))

\* a text that starts with the field's closing marker and goes on with a
\* complete pair: the pair's content is the value
C20_Witness ==
    /\ Applied("parse_xml_response")
    /\ "optimized_prompt" \in fn_in[1].tags
    /\ fn_in[1].text = <<Close("optimized_prompt"), Open("optimized_prompt"),
                         "text", Close("optimized_prompt")>>
    /\ fn_out[1]["optimized_prompt"] = <<"text">>

OpenAt(text) == {i \in 1..Len(text) : IsTestOpen(text[i])}
CloseAt(text) == {i \in 1..Len(text) : text[i] = TestClose}

\* every opening marker of a test is followed by its closing marker before
\* the next opening marker, and no closing marker stands alone
WellFormedTests(text) ==
    /\ Cardinality(OpenAt(text)) = Cardinality(CloseAt(text))
    /\ \A i \in OpenAt(text) :
          \E j \in CloseAt(text) :
              /\ i < j
              /\ \A m \in (i + 1)..(j - 1) : m \notin OpenAt(text) \cup CloseAt(text)

\* the k-th envelope of a well-formed text, by position: what stands between
\* its markers
KthOpen(text, k) ==
    CHOOSE i \in OpenAt(text) : Cardinality({m \in OpenAt(text) : m <= i}) = k

Envelope(text, k) ==
    LET i == KthOpen(text, k)
        j == CHOOSE c \in CloseAt(text) :
                 c > i /\ \A m \in (i + 1)..(c - 1) : m \notin CloseAt(text)
    IN  SubSeq(text, i + 1, j - 1)

\* C21: a response with N well-formed test envelopes among other text gives
\* N triples, the k-th triple from the k-th envelope of the text whatever the
\* numbers in the opening markers; with no envelope it gives the empty
\* sequence
C21_TestsCountAndOrder ==
    (Applied("generate_test_cases") /\ WellFormedTests(fn_in[1].text)) =>
        LET text == fn_in[1].text
            out == fn_out[1]
            N == Cardinality(OpenAt(text))
        IN  /\ Len(out) = N
            /\ N = 0 => out = <<>>
            /\ \A k \in 1..N :
                  /\ Len(out[k]) = 3
                  /\ out[k][1] = extract_xml_content(Envelope(text, k), "scenario")
                  /\ out[k][3] = extract_xml_content(Envelope(text, k), "expected_behavior")

\* two envelopes numbered 2 and then 1 with different bodies and text between
\* them: two triples in the order of the text
C21_Witness ==
    /\ Applied("generate_test_cases")
    /\ WellFormedTests(fn_in[1].text)
    /\ Len(fn_out[1]) = 2
    /\ fn_in[1].text[1] = TestOpen(2)
    /\ Contains(fn_in[1].text, <<TestClose, "intro", TestOpen(1)>>)
    /\ fn_out[1][1][1] = <<"S1">>
    /\ fn_out[1][2][1] = <<"S2">>

\* the value the field has inside one envelope: the trimmed content of its
\* first pair of markers there, empty when the envelope has no such pair
FieldWithin(value, envelope, field) ==
    IF HasPair(envelope, field)
    THEN IsTrimOf(value, FirstPairContent(envelope, field))
    ELSE value = <<>>

TripleWithin(triple, envelope) ==
    /\ FieldWithin(triple[1], envelope, "scenario")
    /\ FieldWithin(triple[2], envelope, "input")
    /\ FieldWithin(triple[3], envelope, "expected_behavior")

\* C22: the scenario, input and expected_behavior of every triple come from
\* the text inside that triple's own envelope: a field the envelope lacks is
\* empty, whatever the neighbouring envelopes and the text outside them hold
C22_TestFieldIsolation ==
    Applied("generate_test_cases") =>
        LET text == fn_in[1].text
            out == fn_out[1]
            found == find_tests(text, 1)
        IN  /\ Len(out) = Len(found)
            /\ \A k \in 1..Len(out) : TripleWithin(out[k], found[k])
            /\ WellFormedTests(text) =>
                  \A k \in 1..Len(out) : TripleWithin(out[k], Envelope(text, k))

\* an input field outside every envelope, an envelope without an input and
\* an envelope with one: the first triple's input is empty
C22_Witness ==
    /\ Applied("generate_test_cases")
    /\ WellFormedTests(fn_in[1].text)
    /\ Len(fn_in[1].text) > 3
    /\ SubSeq(fn_in[1].text, 1, 3) = Tagged("input", <<"outside">>)
    /\ Len(fn_out[1]) = 2
    /\ fn_out[1][1] = << <<"S2">>, <<>>, <<"E2">> >>
    /\ fn_out[1][2] = << <<"S1">>, <<"I1">>, <<"E1">> >>

\* the parsed key each tracked field is read from
ParsedKeyOf(f) ==
    CASE f = "context" -> "extracted_context"
      [] f = "goal" -> "extracted_goal"
      [] f = "format" -> "extracted_format"
      [] f = "ai_role" -> "ai_role"
      [] f = "additional_insights" -> "additional_insights"

\* C23: the merge gives each of the five tracked fields the parsed value of
\* its own key when that value is present, non-empty and not the sentinel,
\* and the field's current value otherwise; nothing else enters the result
C23_MergeFunction ==
    Applied("update_context_understanding") =>
        LET cu == fn_in[1].cu
            p == fn_in[1].parsed
            out == fn_out[1]
        IN  /\ DOMAIN out = {"context", "goal", "format", "ai_role", "additional_insights"}
            /\ \A f \in DOMAIN out :
                  LET key == ParsedKeyOf(f)
                      takes == /\ key \in DOMAIN p
                               /\ p[key] # <<>>
                               /\ p[key] # <<"Not yet clear">>
                  IN  out[f] = IF takes THEN p[key] ELSE cu[f]

\* one merge with a field replaced, a field kept against the sentinel, a
\* field kept against an empty value, a field kept for want of its key, and a
\* key outside the mapping
C23_Witness ==
    /\ Applied("update_context_understanding")
    /\ fn_in[1].cu = [f \in Fields |-> <<"old">>]
    /\ DOMAIN fn_in[1].parsed =
          {"extracted_context", "extracted_goal", "extracted_format", "user_message"}
    /\ fn_in[1].parsed["extracted_context"] = <<"new">>
    /\ fn_in[1].parsed["extracted_goal"] = NotYetClear
    /\ fn_in[1].parsed["extracted_format"] = <<>>
    /\ fn_out[1] = [context |-> <<"new">>, goal |-> <<"old">>, format |-> <<"old">>,
                    ai_role |-> <<"old">>, additional_insights |-> <<"old">>]

\* C24: with no credential configured no request ever goes out and no client
\* is made; the first model call, the classification, raises at the client's
\* construction, the exception goes straight to the session's end, and no
\* step follows it: no retry, no refinement loop, no finalize, no menu
C24_MissingCredentialFatal ==
    [][~ai_client.credential =>
          /\ ai_client'.last_request = None
          /\ ai_client'.client = None
          /\ pc \in {"start", "assess", "error"}
          /\ pc = "start" => pc' = "assess"
          /\ pc = "assess" => (pc' = "error" /\ err' = Some("ValueError"))
          /\ pc = "error" => (pc' = "failed" /\ stack' = <<>>)
          /\ calls' = 0
          /\ state'.messages = <<>>
          /\ result' = None]_vars

\* the class flow without a credential after its first input: the session
\* has failed with the ValueError of the client's construction on display
C24_Witness ==
    /\ ~ai_client.credential
    /\ flow = "class"
    /\ pc = "failed"
    /\ err = Some("ValueError")
    /\ display.message = Some(show_error("ValueError"))
    /\ state.original_input = <<"promptA">>
    /\ ai_client.last_request = None

Ended == pc \in {"failed", "cancelled"}

\* C25: an exception of the model call, raised at the classification, in a
\* refinement turn, at the finalize or at the test generation, is handled by
\* no step of the session: the next step is the session's end, where it is
\* reported as an error and still stands, and nothing follows; no request
\* goes out and no input is asked for after it
C25_CallExceptionEndsSession ==
    [][/\ (pc = "error" /\ err = Some("APIError")) =>
            /\ pc' = "failed"
            /\ err' = Some("APIError")
            /\ display'.message = Some(show_error("APIError"))
            /\ stack' = <<>>
            /\ <<ai_client, calls, state, result, user_input, choice, session>>' =
               <<ai_client, calls, state, result, user_input, choice, session>>
       /\ ~Ended
       /\ (pc' = "error" /\ err' = Some("APIError")) =>
            /\ pc \in {"assess", "model_call", "finalize", "menu"}
            /\ ai_client'.last_request = Some(CallKind)]_vars

\* a session ended by an exception of the test-generation call, made from
\* the menu after a finalize
C25_Witness ==
    /\ pc = "failed"
    /\ err = Some("APIError")
    /\ ai_client.last_request = Some("generate_test_cases")
    /\ display.message = Some(show_error("APIError"))
    /\ result # None
    /\ stack = <<>>

\* C26: an interruption of a wait for input or for the model, at the first
\* input, in the refinement loop, at the finalize or in the menu, ends the
\* session as a cancellation: the cancellation notice is shown, no error
\* stands afterwards, and nothing follows
C26_InterruptIsCancellation ==
    [][/\ (pc = "error" /\ err = Some("KeyboardInterrupt")) =>
            /\ pc' = "cancelled"
            /\ err' = None
            /\ display'.message = Some(show_cancellation)
            /\ stack' = <<>>
       /\ ~Ended
       /\ pc' = "cancelled" => (pc = "error" /\ err = Some("KeyboardInterrupt"))
       /\ (pc' = "error" /\ err' = Some("KeyboardInterrupt")) =>
            pc \in {"start", "assess", "model_call", "ask_input", "finalize", "menu"}]_vars

\* the class flow cancelled while it waited for the user's answer in the
\* second turn of the refinement loop
C26_Witness ==
    /\ pc = "cancelled"
    /\ flow = "class"
    /\ err = None
    /\ display.message = Some(show_cancellation)
    /\ calls = 2
    /\ result = None
    /\ user_input = Some(InMore)
    /\ ai_client.last_request = Some("refinement_loop")

\* C27: the client of the model calls is made at most once: there is none
\* before the first request, the step that makes it is a model call with a
\* credential, every request goes out on that one client, in every turn,
\* finalize and session, and once made the client is never another one
C27_ClientMadeOnce ==
    [][/\ ai_client.client # None => ai_client'.client = ai_client.client
       /\ (ai_client.client = None /\ ai_client'.client # None) =>
             /\ pc \in CallPoints
             /\ ai_client.credential
             /\ ai_client.last_request = None
             /\ ai_client'.last_request = Some(CallKind)
       /\ ai_client'.last_request # None => ai_client'.client = Some(1)
       /\ ai_client'.credential = ai_client.credential]_vars

\* the finalize of a session begun by a start-over, answered on the client
\* the first session made
C27_Witness ==
    /\ session = 2
    /\ pc = "menu"
    /\ result # None
    /\ ai_client.client = Some(1)
    /\ ai_client.last_request = Some("generate_optimized_prompt")
    /\ Len(stack) > 0

\* C28: the classification step changes nothing in the conversation state:
\* messages, context_understanding, original_input and user_intent are after
\* it what they were before it, the pair it found being stored by its caller
C28_ClassificationPure ==
    [][pc = "assess" =>
          /\ state'.messages = state.messages
          /\ state'.context_understanding = state.context_understanding
          /\ state'.original_input = state.original_input
          /\ state'.user_intent = state.user_intent]_vars

\* the first refinement turn of the first session, answered by the response
\* with ready_to_finalize yes and score 0.85, and nothing after it yet
FirstTurnReady ==
    /\ session = 1
    /\ Len(state.messages) = 3
    /\ state.messages[3] = Msg("assistant", RespFull)

\* C29: whatever the classifier said, when the first refinement turn is
\* answered with ready_to_finalize yes and score 0.85 the readiness notice
\* shows confidence 0.85; the input "finalize" then ends the loop after that
\* one model turn; the finalize is entered from there only, is one call, and
\* a completion with a filled optimized_prompt tag gives a non-empty
\* optimized_prompt; the session is then in the menu
C29_ReadyThenFinalize ==
    [][FirstTurnReady =>
          /\ pc = "ready_check" =>
                /\ pc' = "ask_input"
                /\ display'.ready # None
                /\ display'.ready[1].confidence = 85
          /\ pc = "ask_input" => (display.ready # None /\ display.ready[1].confidence = 85)
          /\ (pc = "keyword_check" /\ user_input = Some(InFinalize)) =>
                (pc' = "finalize" /\ calls' = 1 /\ result' = None)
          /\ pc' = "finalize" => (pc = "keyword_check" /\ calls = 1)
          /\ pc = "finalize" =>
                /\ pc' = "menu"
                /\ ai_client'.last_request = Some("generate_optimized_prompt")
                /\ calls' = 1
                /\ state' = state
                /\ \E completion \in FinalResponses :
                      /\ result' = Some(generate_optimized_prompt(flow, completion))
                      /\ Contains(completion, Tagged("optimized_prompt", <<"OP">>)) =>
                            result'[1].optimized_prompt = <<"OP">>]_vars

\* the menu of the first session, reached by that turn, the input "finalize"
\* and a finalize whose completion carried the optimized prompt, for a
\* classifier that answered create_new
C29_Witness ==
    /\ FirstTurnReady
    /\ pc = "menu"
    /\ choice = None
    /\ calls = 1
    /\ state.user_intent = "CREATE_NEW"
    /\ result # None
    /\ result[1].optimized_prompt = <<"OP">>
    /\ result[1].test_cases = None
    /\ ai_client.last_request = Some("generate_optimized_prompt")

LoopPoints ==
    {"model_call", "append_assistant", "parse", "merge", "show_message",
     "ready_check", "ask_input", "keyword_check", "append_user"}

\* C30: the refinement loop ends when, and only when, the user enters a
\* termination keyword: a keyword leads out of the loop to the finalize, any
\* other input leads to the append of the user's turn and to one further
\* model call, and with every model call answered nothing else ends the loop
C30_LoopEndsByKeywordOnly ==
    [][/\ (pc = "keyword_check" /\ is_termination(user_input[1])) => pc' = "finalize"
       /\ (pc = "keyword_check" /\ ~is_termination(user_input[1])) => pc' = "append_user"
       /\ pc = "append_user" => (pc' = "model_call" /\ calls' = calls)
       /\ (pc = "model_call" /\ pc' # "model_call") =>
             (pc' = "append_assistant" /\ calls' = calls + 1)
       /\ (pc \in LoopPoints /\ pc' \notin LoopPoints) =>
             (pc = "keyword_check" /\ is_termination(user_input[1]))]_vars

\* C31: the seeding step sets messages to two turns, a system turn and a user
\* turn; the system turn is the creation prompt exactly when user_intent is
\* CREATE_NEW and the optimization prompt otherwise; the user turn embeds
\* original_input and, for CREATE_NEW, the classifier's initial
\* understanding, which is in additional_insights before the seeding
C31_SeedingByIntent ==
    [][pc = "init" =>
          /\ \E resp \in AssessResponses :
                /\ state.user_intent = assess_user_intent(flow, resp).intent
                /\ state.context_understanding.additional_insights =
                      assess_user_intent(flow, resp).initial_understanding
          /\ Len(state'.messages) = 2
          /\ state'.messages[1].role = "system"
          /\ state'.messages[2].role = "user"
          /\ state'.messages[1].content =
                (IF state.user_intent = "CREATE_NEW"
                 THEN <<"CREATION_PROMPT">> ELSE <<"OPTIMIZATION_PROMPT">>)
          /\ Contains(state'.messages[2].content, state.original_input)
          /\ state.user_intent = "CREATE_NEW" =>
                state'.messages[2].content =
                    <<"User's request: '">> \o state.original_input
                    \o <<"' I understand you want to create a new prompt. ">>
                    \o state.context_understanding.additional_insights
                    \o <<" Please begin helping them create an effective prompt.">>
          /\ state.user_intent # "CREATE_NEW" =>
                state'.messages[2].content =
                    <<"Initial prompt: '">> \o state.original_input
                    \o <<"' Please begin the refinement process.">>
          /\ state'.original_input = state.original_input
          /\ state'.user_intent = state.user_intent
          /\ state'.context_understanding = state.context_understanding]_vars

\* a conversation just seeded for a creation, with the initial understanding
\* of the classifier in the user turn
C31_Witness ==
    /\ pc = "model_call"
    /\ calls = 0
    /\ Len(state.messages) = 2
    /\ state.user_intent = "CREATE_NEW"
    /\ state.messages[1] = Msg("system", <<"CREATION_PROMPT">>)
    /\ state.context_understanding.additional_insights = <<"IU">>
    /\ Contains(state.messages[2].content, <<"IU">>)

NumAssistant(messages) ==
    Cardinality({i \in DOMAIN messages : messages[i].role = "assistant"})

\* C32: the classification, a refinement turn, a finalize and a test
\* generation each send one request, no other step sends one and none is sent
\* again after an exception; a refinement call that returned is counted once
\* and followed by the append of one assistant turn, nothing else adds an
\* assistant turn, so that the assistant turns in messages are as many as
\* the refinement calls of the session that returned: none before the
\* session's conversation is seeded, and in the first session the count of
\* the calls
C32_CallAccounting ==
    [][LET sends == ai_client'.requests - ai_client.requests
           turns == NumAssistant(state'.messages) - NumAssistant(state.messages)
       IN  /\ sends \in {0, 1}
           /\ sends = 1 => (pc \in CallPoints /\ ai_client'.last_request = Some(CallKind))
           /\ pc = "assess" => (sends = 1 \/ (pc' = "error" /\ err' = Some("ValueError")))
           /\ pc = "model_call" => sends = 1
           /\ pc = "finalize" => sends = 1
           /\ (pc = "menu" /\ pc' = "menu") =>
                 sends = (IF display'.message = InvalidNotice THEN 0 ELSE 1)
           /\ (pc = "menu" /\ pc' \notin {"menu", "error"}) => sends = 0
           /\ pc = "error" => (sends = 0 /\ pc' \in {"failed", "cancelled"})
           /\ calls' # calls =>
                 /\ calls' = calls + 1
                 /\ pc = "model_call" /\ pc' = "append_assistant"
                 /\ turns = 0
           /\ (pc = "model_call" /\ pc' = "error") => calls' = calls
           /\ pc = "append_assistant" =>
                 (turns = 1 /\ calls' = calls /\ Last(state'.messages).role = "assistant")
           /\ (pc # "append_assistant" /\ turns # 0) =>
                 (pc \in {"start", "init"} /\ NumAssistant(state'.messages) = 0)
           /\ pc' \in {"assess", "persist", "init"} => NumAssistant(state'.messages) = 0
           /\ session' = 1 =>
                 NumAssistant(state'.messages) =
                     (IF pc' = "append_assistant" THEN calls' - 1 ELSE calls')]_vars

\* C33: a response with ready_to_finalize yes and no score tag makes the
\* readiness notice appear with the default confidence 0.8
C33_DefaultConfidence ==
    (pc = "ask_input" /\ response = Some(RespNoScore)) =>
        /\ display.ready # None
        /\ display.ready[1].confidence = 80

Alternates(messages) ==
    /\ Len(messages) >= 2
    /\ messages[1].role = "system"
    /\ \A i \in 2..Len(messages) :
          messages[i].role = (IF i % 2 = 0 THEN "user" ELSE "assistant")

\* C34: once the conversation is seeded, the first turn of messages is its
\* only system turn and the turns after it alternate user, assistant, user,
\* ...; every refinement call is made on a history that ends with a user
\* turn, the first call after a refine-further too
C34_RoleAlternation ==
    /\ state.messages # <<>> => Alternates(state.messages)
    /\ pc \in LoopPoints \cup {"finalize", "menu"} => Alternates(state.messages)
    /\ pc = "model_call" => Last(state.messages).role = "user"
    /\ sent # None => (Alternates(sent[1]) /\ Last(sent[1]).role = "user")

\* the first call of the loop entered again through refine-further has gone
\* out on a history that ends with the user turn of the refine-further
C34_Witness ==
    /\ pc = "append_assistant"
    /\ result # None
    /\ calls = 2
    /\ sent = Some(state.messages)
    /\ Len(state.messages) = 4
    /\ Last(state.messages).role = "user"
    /\ state.messages[3].role = "assistant"

\* C35: when the menu is shown with has_test_cases true for the current
\* result, a refine-further chosen next appends a user turn that includes the
\* test-case block, also when the test generation found no test block
C35_MenuFlagAndContextAgree ==
    [][(pc = "menu" /\ has_test_cases(result[1]) /\ pc' = "model_call") =>
          /\ Len(state'.messages) = Len(state.messages) + 1
          /\ Last(state'.messages).role = "user"
          /\ Contains(Last(state'.messages).content,
                      <<"Test cases that were generated:">>)]_vars

\* C36: in a session without start-over the class flow does at every step
\* what the functional flow does for the same response and the same input:
\* the same merge of the context, the same readiness notice, the same user
\* and assistant turns, the same result of the finalize and the same user
\* turn of a refine-further
C36_FlowsEquivalent ==
    [][(session = 1 /\ session' = 1) =>
          /\ pc = "init" =>
                \E resp \in AssessResponses :
                    /\ state.user_intent = assess_user_intent("functional", resp).intent
                    /\ state.context_understanding.additional_insights =
                          assess_user_intent("functional", resp).initial_understanding
          /\ pc = "append_assistant" =>
                state'.messages = Append(state.messages, Msg("assistant", response[1]))
          /\ pc = "merge" =>
                state'.context_understanding =
                    update_context_understanding(state.context_understanding,
                        parse_xml_response(response[1], REFINEMENT_TAGS))
          /\ pc = "ready_check" =>
                display'.ready =
                    ready_check(parse_xml_response(response[1], REFINEMENT_TAGS)).panel
          /\ pc = "append_user" =>
                state'.messages = Append(state.messages, Msg("user", user_input[1]))
          /\ (pc = "finalize" /\ pc' = "menu") =>
                \E completion \in FinalResponses :
                    result' = Some(generate_optimized_prompt("functional", completion))
          /\ (pc = "menu" /\ pc' = "model_call") =>
                \E feedback \in Feedbacks :
                    state'.messages =
                        Append(state.messages,
                               Msg("user", refinement_context_in("functional", result[1],
                                                                 get_user_input(feedback))))]_vars

\* C37: when the model call of a refinement turn, of a finalize or of a test
\* generation raises, messages, context_understanding, original_input,
\* user_intent and the current result are what they were before the call,
\* and they stay so while the exception reaches the session's end
C37_FailedCallChangesNothing ==
    [][/\ (pc \in {"model_call", "finalize", "menu"} /\ pc' = "error") =>
             /\ state'.messages = state.messages
             /\ state'.context_understanding = state.context_understanding
             /\ state'.original_input = state.original_input
             /\ state'.user_intent = state.user_intent
             /\ result' = result
             /\ calls' = calls
       /\ pc = "error" => (state' = state /\ result' = result)]_vars

\* the finalize after a refine-further has failed: the result of the first
\* finalize is still the current one and the history ends with the
\* assistant turn of the second loop
C37_Witness ==
    /\ pc = "failed"
    /\ err = Some("APIError")
    /\ ai_client.last_request = Some("generate_optimized_prompt")
    /\ result # None
    /\ Len(state.messages) = 5
    /\ Last(state.messages).role = "assistant"
    /\ calls = 2

\* C38: every entry into the refinement loop, the first or one through
\* refine-further, makes a model turn before the user can end it: the loop is
\* entered at the model call, the input is asked for only after the
\* assistant's turn was appended, so between the entry and the finalize that
\* follows it at least one assistant turn is added, and a refine-further
\* answered at once by a termination keyword grows messages by two turns, the
\* user turn with the feedback and one assistant turn
C38_TurnBeforeTermination ==
    [][/\ (pc \notin LoopPoints /\ pc' \in LoopPoints) =>
             /\ pc' = "model_call"
             /\ Last(state'.messages).role = "user"
       /\ pc' = "ask_input" =>
             /\ pc = "ready_check"
             /\ Last(state.messages).role = "assistant"
             /\ state'.messages = state.messages
       /\ pc' = "finalize" =>
             /\ pc = "keyword_check"
             /\ Last(state.messages).role = "assistant"
             /\ state'.messages = state.messages
       /\ (pc' = "finalize" /\ result # None /\ calls = 2) =>
             /\ Len(state.messages) = 5
             /\ state.messages[4].role = "user"
             /\ \E feedback \in Feedbacks :
                   state.messages[4].content = refinement_context(result[1], feedback)
             /\ state.messages[5].role = "assistant"]_vars

\* the loop entered through refine-further and ended by a keyword at its
\* first input: the three turns before the refine-further and two more
C38_Witness ==
    /\ pc = "finalize"
    /\ result # None
    /\ calls = 2
    /\ Len(state.messages) = 5
    /\ state.messages[4].role = "user"
    /\ state.messages[5] = Msg("assistant", RespFull)
    /\ user_input = Some(InFinalize)

OnlyWhitespace(text) == \A k \in 1..Len(text) : text[k] \in Whitespace

\* C39: no value the parser extracts starts or ends with whitespace; a field
\* whose content is whitespace only comes out empty, as a field that is
\* missing does, and the merge with it leaves the context field as it was
C39_ValuesTrimmed ==
    Applied("refinement_loop") =>
        LET text == fn_in[1].text
            out == fn_out[1]
            goal == out.parsed["extracted_goal"]
        IN  /\ \A tag \in DOMAIN out.parsed :
                  out.parsed[tag] # <<>> =>
                      /\ out.parsed[tag][1] \notin Whitespace
                      /\ Last(out.parsed[tag]) \notin Whitespace
            /\ ~HasPair(text, "extracted_goal") => goal = <<>>
            /\ (HasPair(text, "extracted_goal")
                  /\ OnlyWhitespace(FirstPairContent(text, "extracted_goal"))) => goal = <<>>
            /\ goal = <<>> => out.cu = fn_in[1].cu

\* a goal field that holds a blank and a line break, parsed and merged into
\* an understanding whose goal was known
C39_Witness ==
    /\ Applied("refinement_loop")
    /\ fn_in[1].text = <<Open("extracted_goal"), " ", "\n", Close("extracted_goal")>>
    /\ fn_in[1].cu.goal = <<"old">>
    /\ fn_out[1].parsed["extracted_goal"] = <<>>
    /\ fn_out[1].cu.goal = <<"old">>

====
